---- MODULE Spec2Model ----
(***************************************************************************)
(* Line-chart coordinate engine of @lct/ui (charts/lines): the reactive     *)
(* store created by createState, the components that feed it (columns,      *)
(* legends, filter, chart root) and the useThrottle wrapper of mousemove.   *)
(*                                                                          *)
(* Value representation.  JS `number` values are extended rationals         *)
(* [num, den] (den = 0 encodes NaN = 0/0, +Infinity = 1/0, -Infinity =      *)
(* -1/0), JS `null` in a number/object slot is NULL, a missing array        *)
(* element is UNDEFINED.  `number | string` identifiers are records         *)
(* [type, text] so that 1 and "1" are different Map keys.  Nullable arrays  *)
(* and computed results are NULL or a record wrapping the list.             *)
(***************************************************************************)
EXTENDS Integers, Sequences, FiniteSets, TLC

VARIABLES
    initialValue,     \* createState's argument (columns, columnLabels, legends, datasets)
    layout,           \* DOM geometry read by getBoundingClientRect
    axisYOrigin,      \* reactiveState.axisYOrigin
    columnsCoords,    \* reactiveState.columnsCoords
    columnWidth,      \* state.columnWidth
    mouseCoords,      \* reactiveState.mouseCoords
    hoveredSegment,   \* reactiveState.hoveredSegment
    highlightSegment, \* reactiveState.highlightSegment
    filterIdDataset,  \* reactiveState.filterIdDataset
    filterLegends,    \* reactiveState.filterLegends
    isActive,         \* ChartLinesColumn's isActive ref, one per column
    lastTime,         \* useThrottle's closure variable
    executions,       \* Date.now() of every call that ran the throttled fn, in order
    lct,              \* localStorage item 'lct' (users.store)
    lastCheck,        \* the last checkAdmin / checkUser call and what it returned
    isLoading,        \* the export button's isLoading ref
    exportClicks,     \* clicks on the export button that reached getExportData
    exportRequests,   \* axios.get requests issued by getExportData
    exportPending,    \* requests not settled yet
    exportDownloads,  \* files handed to the browser (link.click())
    exportErrors,     \* console.error calls of getExportData
    checked,          \* DOM checked state of the default filter checkboxes, one per legend
    activityIndex,    \* region.activity_index of a rendered table cell
    paintClass,       \* the class paints() gave that cell
    route,            \* name of the route the router ended on (none before the first navigation)
    lastTo,           \* name of the route the last navigation asked for
    redirects,        \* redirects issued by beforeEach during the last navigation
    current,          \* LoadData.vue current ref (step index)
    result,           \* LoadData.vue result ref
    uploadStartTime,  \* whether LoadData.vue uploadStartTime holds a time
    uploadErrors,     \* console.error calls of handleChange
    store,            \* the regions statistics stores (yearly and quarterly), null until loaded
    selectIndicator,  \* map card selectIndicator ref
    selectPeriod,     \* map card selectPeriod ref
    layerRange,       \* interpolation stops of the division-fill-outline layer, null before load
    featureMetrics,   \* feature-state metrics of the regions, null until set
    tableRows,        \* store.regional_statistics as the table reads it, null until loaded
    sort              \* the table sort state (by, direction)

\* The variables of the frontend pages (login, report export).
appVars == <<lct, lastCheck, isLoading, exportClicks, exportRequests, exportPending,
             exportDownloads, exportErrors>>

\* The variables of the line chart.
chartVars == <<initialValue, layout, axisYOrigin, columnsCoords, columnWidth, mouseCoords,
               hoveredSegment, highlightSegment, filterIdDataset, filterLegends,
               isActive, lastTime, executions>>

filterVars == <<checked>>

tableVars == <<activityIndex, paintClass, tableRows, sort>>

navVars == <<route, lastTo, redirects>>

wizardVars == <<current, result, uploadStartTime, uploadErrors>>

mapVars == <<store, selectIndicator, selectPeriod, layerRange, featureMetrics>>

\* The variables of the other pages and controls.
pageVars == <<filterVars, tableVars, navVars, wizardVars, mapVars>>

vars == <<initialValue, layout, axisYOrigin, columnsCoords, columnWidth, mouseCoords,
          hoveredSegment, highlightSegment, filterIdDataset, filterLegends,
          isActive, lastTime, executions, lct, lastCheck, isLoading, exportClicks,
          exportRequests, exportPending, exportDownloads, exportErrors,
          checked,
          activityIndex, paintClass,
          route, lastTo, redirects,
          current, result, uploadStartTime, uploadErrors,
          store, selectIndicator, selectPeriod, layerRange, featureMetrics,
          tableRows, sort>>

-----------------------------------------------------------------------------
(* Values *)

NULL == [null |-> TRUE]

UNDEFINED == [undefined |-> TRUE]

NullStr == "<null>"

Abs(n) == IF n < 0 THEN -n ELSE n

Sign(n) == IF n < 0 THEN -1 ELSE IF n = 0 THEN 0 ELSE 1

RECURSIVE GCD(_, _)
GCD(a, b) == IF b = 0 THEN a ELSE GCD(b, a % b)

\* n/d in lowest terms with d >= 0; d = 0 gives NaN (0/0) or +-Infinity (+-1/0).
Rat(n, d) ==
    IF d = 0 THEN [num |-> Sign(n), den |-> 0]
    ELSE LET g == GCD(Abs(n), Abs(d))
             s == Sign(d)
         IN  [num |-> (s * n) \div g, den |-> (s * d) \div g]

Num(n) == [num |-> n, den |-> 1]

IsFinite(a) == a.den # 0

IsNaN(a) == a.den = 0 /\ a.num = 0

RMul(a, b) == Rat(a.num * b.num, a.den * b.den)

RDiv(a, b) == Rat(a.num * b.den, a.den * b.num)

RSub(a, b) ==
    IF IsFinite(a) /\ IsFinite(b) THEN Rat(a.num * b.den - b.num * a.den, a.den * b.den)
    ELSE IF IsNaN(a) \/ IsNaN(b) THEN Rat(0, 0)
    ELSE IF IsFinite(a) THEN Rat(-b.num, 0)
    ELSE IF IsFinite(b) THEN a
    ELSE IF a.num = b.num THEN Rat(0, 0) ELSE a

RAdd(a, b) == RSub(a, Rat(-b.num, b.den))

\* a < b on numbers; every comparison with NaN is false.
RLess(a, b) ==
    IF IsNaN(a) \/ IsNaN(b) THEN FALSE
    ELSE IF IsFinite(a) /\ IsFinite(b) THEN a.num * b.den < b.num * a.den
    ELSE IF IsFinite(a) THEN b.num > 0
    ELSE IF IsFinite(b) THEN a.num < 0
    ELSE a.num < b.num

RLeq(a, b) == ~(IsNaN(a) \/ IsNaN(b)) /\ (a = b \/ RLess(a, b))

NumberId(text) == [type |-> "number", text |-> text]

StringId(text) == [type |-> "string", text |-> text]

-----------------------------------------------------------------------------
(* utils: paints *)

paints(value) ==
    IF RLeq(Num(75), value) THEN "bg-[#B0DA86]"
    ELSE IF RLeq(Num(50), value) /\ RLeq(value, Num(74)) THEN "bg-[#D7EDC2]"
    ELSE IF RLeq(Num(25), value) /\ RLeq(value, Num(49)) THEN "bg-[#FFE2E2]"
    ELSE "bg-[#F59E9E]"

-----------------------------------------------------------------------------
(* createState: the Maps and the computed values *)

SeqMax(S) == CHOOSE m \in S : \A k \in S : k <= m

\* Variant: a lookup that falls back to the first entry when the key is unknown.
MapGetOrFirst(list, key, field) ==
    LET hits == {i \in 1..Len(list) : list[i][field] = key}
    IN  IF hits = {} THEN list[1] ELSE list[SeqMax(hits)]

\* new Map(pairs).get(key): the last entry with that key wins; undefined if none.
MapGet(list, key, field) ==
    LET hits == {i \in 1..Len(list) : list[i][field] = key}
    IN  IF hits = {} THEN UNDEFINED ELSE list[SeqMax(hits)]

datasetsGet(id) == MapGet(initialValue.datasets, id, "id")

legendsGet(name) == MapGet(initialValue.legends, name, "name")

\* legends.get(metric.name)?.color ?? '#000000'
ColorOf(name) ==
    IF legendsGet(name) = UNDEFINED THEN "#000000" ELSE legendsGet(name).color

SomeLegendNamed(legendList, name) ==
    \E k \in 1..Len(legendList) : legendList[k].name = name

isMetricFiltered(metricName) == SomeLegendNamed(filterLegends, metricName)

NonNull(percents) == SelectSeq(percents, LAMBDA p : p # NULL)

RECURSIVE FlatMapSelected(_, _)
FlatMapSelected(metrics, legendList) ==
    IF metrics = <<>> THEN <<>>
    ELSE (IF SomeLegendNamed(legendList, Head(metrics).name)
          THEN NonNull(Head(metrics).percents) ELSE <<>>)
         \o FlatMapSelected(Tail(metrics), legendList)

\* Math.max(...values) of a non-empty list of finite numbers.
MathMax(values) ==
    LET i == CHOOSE i \in 1..Len(values) :
                 \A k \in 1..Len(values) : RLeq(values[k], values[i])
    IN  values[i]

\* Variant: the maximum is taken over every metric, hidden ones included.
MaxValueOfAllMetrics(idDataset, legendList) ==
    LET dataset == datasetsGet(idDataset)
    IN  IF dataset = UNDEFINED THEN Num(100)
        ELSE LET values == FlatMapSelected(dataset.metrics, initialValue.legends)
             IN  IF Len(values) # 0 THEN MathMax(values) ELSE Num(100)

\* Variant: only the first visible metric with values sets the maximum.
MaxValueOfFirstMetric(idDataset, legendList) ==
    LET dataset == datasetsGet(idDataset)
    IN  IF dataset = UNDEFINED THEN Num(100)
        ELSE LET first == SelectSeq(dataset.metrics,
                              LAMBDA m : /\ SomeLegendNamed(legendList, m.name)
                                         /\ Len(NonNull(m.percents)) # 0)
             IN  IF Len(first) # 0 THEN MathMax(NonNull(first[1].percents)) ELSE Num(100)

MaxValueOf(idDataset, legendList) ==
    LET dataset == datasetsGet(idDataset)
    IN  IF dataset = UNDEFINED THEN Num(100)
        ELSE LET values == FlatMapSelected(dataset.metrics, legendList)
             IN  IF Len(values) # 0 THEN MathMax(values) ELSE Num(100)

maxValue == MaxValueOf(filterIdDataset, filterLegends)

\* center - (coordinate / 100) * center, applied to the chosen axis.
useAdjustCoordinates(x, y, center, axis) ==
    LET adjust(coordinate) == RSub(center, RMul(RDiv(coordinate, Num(100)), center))
    IN  IF axis = "x" THEN [x |-> adjust(x), y |-> y]
        ELSE [x |-> x, y |-> adjust(y)]

NullableCoord == [x |-> NULL, y |-> NULL]

\* Variant: a falsy test (!percent) instead of === null, so 0 becomes a gap.
PointCoordFalsy(percent, j, max, coords, origin) ==
    IF percent = NULL \/ percent = Num(0) THEN NullableCoord
    ELSE LET normalizedPercent == RMul(RDiv(percent, max), Num(100))
         IN  useAdjustCoordinates(coords.list[j].x, normalizedPercent,
                                  IF origin = NULL THEN Num(0) ELSE origin, "y")

\* One point of a metric; j is the 1-based index (array index j - 1).
PointCoord(percent, j, max, coords, origin) ==
    IF percent = NULL THEN NullableCoord
    ELSE LET normalizedPercent == RMul(RDiv(percent, max), Num(100))
         IN  useAdjustCoordinates(coords.list[j].x, normalizedPercent,
                                  IF origin = NULL THEN Num(0) ELSE origin, "y")

PointCoords(percents, max, coords, origin) ==
    [j \in 1..Len(percents) |-> PointCoord(percents[j], j, max, coords, origin)]

\* Variant: the path is drawn through the non-null points only, bridging gaps.
PathCoordsBridging(pointCoords) ==
    LET drawn == SelectSeq(pointCoords, LAMBDA c : c # NullableCoord)
    IN  [j \in 1..(IF Len(drawn) = 0 THEN 0 ELSE Len(drawn) - 1) |->
            [start |-> drawn[j], end |-> drawn[j + 1]]]

\* pointCoords.slice(0, -1).map((coord, j) => ({ start: coord, end: pointCoords[j + 1] }))
PathCoords(pointCoords) ==
    [j \in 1..(IF Len(pointCoords) = 0 THEN 0 ELSE Len(pointCoords) - 1) |->
        [start |-> pointCoords[j], end |-> pointCoords[j + 1]]]

\* metric.id ?? `${i}-${dataset.id}-${dataset.name}`
SegmentId(metric, i, dataset) ==
    IF metric.id = UNDEFINED \/ metric.id = NULL
    THEN [index |-> i, datasetId |-> dataset.id.text, datasetName |-> dataset.name]
    ELSE metric.id

\* columnsCoords![j].x of a missing element is a TypeError.
MetricThrows(metric, coords) ==
    \E j \in 1..Len(metric.percents) :
        metric.percents[j] # NULL /\ j > Len(coords.list)

THROWS == [throws |-> TRUE]

RECURSIVE ReduceSegments(_, _, _, _, _, _)
ReduceSegments(dataset, k, legendList, max, coords, origin) ==
    IF k > Len(dataset.metrics) THEN <<>>
    ELSE LET metric == dataset.metrics[k]
             rest == ReduceSegments(dataset, k + 1, legendList, max, coords, origin)
         IN  IF ~SomeLegendNamed(legendList, metric.name) THEN rest
             ELSE LET pointCoords == PointCoords(metric.percents, max, coords, origin)
                  IN  <<[id |-> SegmentId(metric, k - 1, dataset),
                         name |-> metric.name,
                         color |-> ColorOf(metric.name),
                         pointCoords |-> pointCoords,
                         pathCoords |-> PathCoords(pointCoords)]>> \o rest

SegmentsOf(coords, origin, idDataset, legendList) ==
    IF coords = NULL THEN NULL
    ELSE LET dataset == datasetsGet(idDataset)
         IN  IF dataset = UNDEFINED THEN NULL
             ELSE IF \E k \in 1..Len(dataset.metrics) :
                        /\ SomeLegendNamed(legendList, dataset.metrics[k].name)
                        /\ MetricThrows(dataset.metrics[k], coords)
                  THEN THROWS
                  ELSE [list |-> ReduceSegments(dataset, 1, legendList,
                                                MaxValueOf(idDataset, legendList),
                                                coords, origin)]

segments == SegmentsOf(columnsCoords, axisYOrigin, filterIdDataset, filterLegends)

ElementAt(list, index) ==
    IF index + 1 \in 1..Len(list) THEN list[index + 1] ELSE UNDEFINED

\* Variant: the guard joins its two tests with && instead of ||, so a missing
\* measurement or hover alone reaches the property reads and throws.
TooltipOfBothMissing(coords, hovered, idDataset, legendList) ==
    IF coords = NULL /\ hovered = NULL THEN NULL
    ELSE IF datasetsGet(idDataset) = UNDEFINED THEN NULL
    ELSE THROWS

\* Variant: hidden metrics are not filtered out of the payload.
TooltipOfAllMetrics(coords, hovered, idDataset, legendList) ==
    IF coords = NULL \/ hovered = NULL THEN NULL
    ELSE LET dataset == datasetsGet(idDataset)
         IN  IF dataset = UNDEFINED THEN NULL
             ELSE [name |-> hovered.name,
                   metrics |-> [k \in 1..Len(dataset.metrics) |->
                                  [name |-> dataset.metrics[k].name,
                                   percent |-> ElementAt(dataset.metrics[k].percents,
                                                         hovered.id),
                                   color |-> ColorOf(dataset.metrics[k].name)]],
                   position |-> ElementAt(coords.list, hovered.id)]

TooltipOf(coords, hovered, idDataset, legendList) ==
    IF coords = NULL \/ hovered = NULL THEN NULL
    ELSE LET dataset == datasetsGet(idDataset)
         IN  IF dataset = UNDEFINED THEN NULL
             ELSE LET visible == SelectSeq(dataset.metrics,
                                     LAMBDA m : SomeLegendNamed(legendList, m.name))
                  IN  [name |-> hovered.name,
                       metrics |-> [k \in 1..Len(visible) |->
                                      [name |-> visible[k].name,
                                       percent |-> ElementAt(visible[k].percents, hovered.id),
                                       color |-> ColorOf(visible[k].name)]],
                       position |-> ElementAt(coords.list, hovered.id)]

tooltip == TooltipOf(columnsCoords, hoveredSegment, filterIdDataset, filterLegends)

-----------------------------------------------------------------------------
(* Actions of the store (createState's `actions`) *)

Wait == 100

InitialLegendCount == 5

Min(a, b) == IF a < b THEN a ELSE b

\* initialValue.legends.slice(0, 5)
InitialFilterLegends(legends) == SubSeq(legends, 1, Min(InitialLegendCount, Len(legends)))

NamesOf(legendList) == {legendList[k].name : k \in 1..Len(legendList)}

\* Variant: the Set is not seeded from the active legends, so a toggle keeps
\* only the name it was given.
ToggleLegendUnseeded(legendList, name) ==
    SelectSeq(initialValue.legends, LAMBDA legend : legend.name = name)

\* Variant: a legend toggled on is pushed to the end of the active list
\* instead of the list being rebuilt from state.legends.
ToggleLegendAppending(legendList, name) ==
    IF name \in NamesOf(legendList)
    THEN SelectSeq(legendList, LAMBDA legend : legend.name # name)
    ELSE legendList \o SelectSeq(initialValue.legends, LAMBDA legend : legend.name = name)

\* updateFilterLegend: toggle the name in the Set of active names, then
\* rebuild the list from state.legends in their original order.
ToggleLegend(legendList, name) ==
    LET setLegends == IF name \in NamesOf(legendList)
                      THEN NamesOf(legendList) \ {name}
                      ELSE NamesOf(legendList) \cup {name}
    IN  SelectSeq(initialValue.legends, LAMBDA legend : legend.name \in setLegends)

\* Variant: the toggle also clears the hover state.
UpdateFilterLegendResetting(name) ==
    /\ filterLegends' = ToggleLegend(filterLegends, name)
    /\ hoveredSegment' = NULL
    /\ UNCHANGED <<appVars, pageVars, initialValue, layout, axisYOrigin, columnsCoords, columnWidth,
                   mouseCoords, highlightSegment, filterIdDataset,
                   isActive, lastTime, executions>>

UpdateFilterLegend(name) ==
    /\ filterLegends' = ToggleLegend(filterLegends, name)
    /\ UNCHANGED <<appVars, pageVars, initialValue, layout, axisYOrigin, columnsCoords, columnWidth,
                   mouseCoords, hoveredSegment, highlightSegment, filterIdDataset,
                   isActive, lastTime, executions>>

\* The default filter-legends slot checks the checkboxes with index i <= 5.
LastCheckedIndex == 5

\* A click on the i-th checkbox of the default filter: the browser flips the
\* checkbox, then @change calls onChangeChecked(legend.name).
OnChangeChecked(i) ==
    /\ filterLegends' = ToggleLegend(filterLegends, initialValue.legends[i].name)
    /\ checked' = [checked EXCEPT ![i] = ~checked[i]]
    /\ UNCHANGED <<appVars, tableVars, navVars, wizardVars, mapVars, initialValue, layout, axisYOrigin, columnsCoords, columnWidth,
                   mouseCoords, hoveredSegment, highlightSegment, filterIdDataset,
                   isActive, lastTime, executions>>

UpdateIdDataset(id) ==
    /\ filterIdDataset' = id
    /\ UNCHANGED <<appVars, pageVars, initialValue, layout, axisYOrigin, columnsCoords, columnWidth,
                   mouseCoords, hoveredSegment, highlightSegment, filterLegends,
                   isActive, lastTime, executions>>

\* The default <select>: option values are strings, whatever the dataset id was.
OnChangeDataset(dataset) == UpdateIdDataset(StringId(dataset.id.text))

UpdateHighlightSegment(name) ==
    /\ highlightSegment' = name
    /\ UNCHANGED <<appVars, pageVars, initialValue, layout, axisYOrigin, columnsCoords, columnWidth,
                   mouseCoords, hoveredSegment, filterIdDataset, filterLegends,
                   isActive, lastTime, executions>>

ResetHighlightSegment == UpdateHighlightSegment(NullStr)

-----------------------------------------------------------------------------
(* ChartLinesColumns: measurements *)

\* useElementCoords(container, column, centerElement: true) for column c (1-based).
ColumnCenter(c) ==
    [x |-> RAdd(Num((c - 1) * layout.colWidth), Rat(layout.colWidth, 2)),
     y |-> Rat(layout.height, 2)]

\* onMounted: setAxisYOrigin (the container's height).
OnMounted ==
    /\ axisYOrigin = NULL
    /\ axisYOrigin' = Num(layout.height)
    /\ UNCHANGED <<appVars, pageVars, initialValue, layout, columnsCoords, columnWidth, mouseCoords,
                   hoveredSegment, highlightSegment, filterIdDataset, filterLegends,
                   isActive, lastTime, executions>>

\* watch(columns) and the ResizeObserver callback: setColumnsCoords, setColumnWidth.
SetColumnsCoords ==
    /\ initialValue.columns > 0
    /\ columnsCoords' = [list |-> [c \in 1..initialValue.columns |-> ColumnCenter(c)]]
    /\ columnWidth' = Num(layout.colWidth)
    /\ UNCHANGED <<appVars, pageVars, initialValue, layout, axisYOrigin, mouseCoords, hoveredSegment,
                   highlightSegment, filterIdDataset, filterLegends, isActive,
                   lastTime, executions>>

-----------------------------------------------------------------------------
(* ChartLinesColumn and ChartLines: hover *)

\* useElementBounds(parentNode, column) for column c (1-based).
ElementBounds(c) ==
    [top |-> Num(0), left |-> Num((c - 1) * layout.colWidth),
     bottom |-> Num(layout.height), right |-> Num(c * layout.colWidth)]

useIsMouseInside(coords, bounds) ==
    /\ RLeq(bounds.left, coords.x) /\ RLeq(coords.x, bounds.right)
    /\ RLeq(bounds.top, coords.y) /\ RLeq(coords.y, bounds.bottom)

\* !state.computed.segments?.length (a throwing getter aborts the watcher too).
NoSegments(segs) == segs = NULL \/ segs = THROWS \/ Len(segs.list) = 0

\* The watchers of columns c, c+1, ... run in order after mouseCoords was
\* replaced: toggleActive, then watch(isActive) -> updateHoveredSegment.
RECURSIVE FlushColumns(_, _, _, _, _)
FlushColumns(c, coords, segs, active, hovered) ==
    IF c > initialValue.columns THEN [isActive |-> active, hoveredSegment |-> hovered]
    ELSE IF NoSegments(segs)
         THEN FlushColumns(c + 1, coords, segs, active, hovered)
    ELSE IF useIsMouseInside(coords, ElementBounds(c))
         THEN IF ~active[c]
              THEN FlushColumns(c + 1, coords, segs, [active EXCEPT ![c] = TRUE],
                                [id |-> c - 1,
                                 name |-> ElementAt(initialValue.columnLabels, c - 1)])
              ELSE FlushColumns(c + 1, coords, segs, active, hovered)
    ELSE FlushColumns(c + 1, coords, segs, [active EXCEPT ![c] = FALSE], hovered)

\* Variant: the elapsed time is not compared with wait.
ThrottlePassesAnyLater(now, last, wait) == now - last > 0

\* Variant: a call exactly wait ms after the last executed one is dropped.
ThrottlePassesStrictlyLater(now, last, wait) == now - last > wait

\* useThrottle: fn runs iff now - lastTime >= wait.
ThrottlePasses(now, last, wait) == now - last >= wait

\* mousemove on the chart: the throttled updateMouseCoords, then the watchers.
MouseMove(x, y, now) ==
    IF ThrottlePasses(now, lastTime, Wait)
    THEN LET coords == [x |-> Num(x), y |-> Num(y)]
             after == FlushColumns(1, coords, segments, isActive, hoveredSegment)
         IN  /\ mouseCoords' = coords
             /\ isActive' = after.isActive
             /\ hoveredSegment' = after.hoveredSegment
             /\ lastTime' = now
             /\ executions' = Append(executions, now)
             /\ UNCHANGED <<appVars, pageVars, initialValue, layout, axisYOrigin, columnsCoords,
                            columnWidth, highlightSegment, filterIdDataset,
                            filterLegends>>
    ELSE UNCHANGED vars

ResetCoords == [x |-> Num(-1), y |-> Num(-1)]

\* mouseleave: resetMouseCoords, resetHoveredSegment, then the watchers.
HandleMouseLeave ==
    LET after == FlushColumns(1, ResetCoords, segments, isActive, NULL)
    IN  /\ mouseCoords' = ResetCoords
        /\ isActive' = after.isActive
        /\ hoveredSegment' = after.hoveredSegment
        /\ UNCHANGED <<appVars, pageVars, initialValue, layout, axisYOrigin, columnsCoords, columnWidth,
                       highlightSegment, filterIdDataset, filterLegends, lastTime,
                       executions>>

\* ChartLinesLegends shows all active legends while fewer than 11, else the first 11.
MaxShownLegends == 11

ShownLegends ==
    IF Len(filterLegends) < MaxShownLegends THEN filterLegends
    ELSE SubSeq(filterLegends, 1, MaxShownLegends)

\* The v-else branch renders one more item, '+N'.
ExtraItemShown == ~(Len(filterLegends) < MaxShownLegends)

\* filterLegends.slice(11, filterLegends.length).length
ExtraItemCount == Len(SubSeq(filterLegends, MaxShownLegends + 1, Len(filterLegends)))

-----------------------------------------------------------------------------
(* Initial values and inputs *)

MaxVal == 2      \* metric values range over null, 0..MaxVal

MaxLen == 3      \* values per metric (and columns) in the data specification

ChartCols == 2   \* columns in the interaction specification

MaxTicks == 2    \* Date.now() readings span MaxTicks throttle periods

\* The rendered geometry: every column colWidth wide, the container height high.
Layout == [colWidth |-> 2, height |-> 4]

Vals == {NULL} \cup {Num(v) : v \in 0..MaxVal}

MonthLabels == <<"Jan", "Feb", "Mar", "Apr", "May", "Jun",
                 "Jul", "Aug", "Sep", "Oct", "Nov", "Dec">>

Metric(name, percents) == [id |-> UNDEFINED, name |-> name, percents |-> percents]

ConstSeq(n, v) == [j \in 1..n |-> v]

\* Two legends, two datasets over the same metric names (as the dashboard
\* builds them); the second dataset has a number id and larger values.
ChartData(columns, pa, pb, id2) ==
    [columns |-> columns,
     columnLabels |-> SubSeq(MonthLabels, 1, columns),
     legends |-> <<[color |-> "#aa0000", name |-> "a"],
                   [color |-> "#0000bb", name |-> "b"]>>,
     datasetLabel |-> "",
     datasets |-> <<[id |-> StringId("d1"), name |-> "first",
                     metrics |-> <<Metric("a", pa), Metric("b", pb)>>],
                    [id |-> id2, name |-> "second",
                     metrics |-> <<Metric("a", ConstSeq(Len(pa), Num(MaxVal + 1))),
                                   Metric("b", ConstSeq(Len(pa), NULL))>>]>>]

\* Interaction specification: a few value shapes, every handler.
InitialValues ==
    {ChartData(ChartCols, [j \in 1..ChartCols |-> Num(j - 1)], pb, StringId("d2")) :
        pb \in {ConstSeq(ChartCols, NULL), ConstSeq(ChartCols, Num(MaxVal))}}

\* Data specification: every value array for metric a, constant arrays for b.
DataInitialValues ==
    {ChartData(MaxLen, pa, pb, NumberId("2")) :
        pa \in [1..MaxLen -> Vals],
        pb \in {ConstSeq(MaxLen, v) : v \in Vals}}

InitWith(values) ==
    /\ initialValue \in values
    /\ layout = Layout
    /\ axisYOrigin = NULL
    /\ columnsCoords = NULL
    /\ columnWidth = NULL
    /\ mouseCoords = ResetCoords
    /\ hoveredSegment = NULL
    /\ highlightSegment = NullStr
    /\ filterIdDataset = initialValue.datasets[1].id
    /\ filterLegends = InitialFilterLegends(initialValue.legends)
    /\ isActive = [c \in 1..initialValue.columns |-> FALSE]
    /\ lastTime = 0
    /\ executions = <<>>
    /\ lct = NULL
    /\ lastCheck = NULL
    /\ isLoading = FALSE
    /\ exportClicks = 0
    /\ exportRequests = 0
    /\ exportPending = 0
    /\ exportDownloads = 0
    /\ exportErrors = 0
    /\ checked = [i \in 1..Len(initialValue.legends) |-> i - 1 <= LastCheckedIndex]
    /\ activityIndex = Num(0)
    /\ paintClass = paints(Num(0))
    /\ route = NullStr
    /\ lastTo = NullStr
    /\ redirects = 0
    /\ current = 0
    /\ result = NULL
    /\ uploadStartTime = NullStr
    /\ uploadErrors = 0
    /\ store = NULL
    /\ selectIndicator = "flights_count"
    /\ selectPeriod = "Y"
    /\ layerRange = NULL
    /\ featureMetrics = NULL
    /\ tableRows = NULL
    /\ sort = [by |-> "activity_index", direction |-> "desc"]

Init == InitWith(InitialValues)

InitData == InitWith(DataInitialValues)

\* The records the columns pass to updateHoveredSegment.
HoverInputs ==
    {[id |-> c - 1, name |-> ElementAt(initialValue.columnLabels, c - 1)] :
        c \in 1..initialValue.columns}

\* Names the filter can be asked to toggle: the legends, and one that is none.
LegendNameInputs == NamesOf(initialValue.legends) \cup {"other"}

\* Identifiers updateIdDataset can be given: the datasets' own, and one of none.
IdInputs == {initialValue.datasets[k].id : k \in 1..Len(initialValue.datasets)}
                \cup {StringId("none")}

\* Cursor positions: along the top edge of the columns, and one below them.
MousePoints ==
    {<<x, 0>> : x \in 1..(initialValue.columns * layout.colWidth - 1)}
        \cup {<<1, layout.height + 1>>}

\* Date.now() readings: period starts and the last millisecond before them.
Times == {k * Wait : k \in 1..MaxTicks} \cup {k * Wait + Wait - 1 : k \in 1..(MaxTicks - 1)}

ToggleLegendStep == \E name \in LegendNameInputs : UpdateFilterLegend(name)

SelectDatasetStep == \E id \in IdInputs : UpdateIdDataset(id)

DefaultSelectStep ==
    \E k \in 1..Len(initialValue.datasets) : OnChangeDataset(initialValue.datasets[k])

MouseMoveStep == \E p \in MousePoints, now \in Times : MouseMove(p[1], p[2], now)

LegendEnterStep ==
    \E k \in 1..Len(ShownLegends) : UpdateHighlightSegment(ShownLegends[k].name)

Next ==
    \/ OnMounted
    \/ SetColumnsCoords
    \/ ToggleLegendStep
    \/ SelectDatasetStep
    \/ DefaultSelectStep
    \/ MouseMoveStep
    \/ HandleMouseLeave
    \/ LegendEnterStep
    \/ ResetHighlightSegment

Spec == Init /\ [][Next]_vars

\* The handlers that decide which segments exist and where they lie.
NextData ==
    \/ OnMounted
    \/ SetColumnsCoords
    \/ ToggleLegendStep
    \/ SelectDatasetStep
    \/ DefaultSelectStep

SpecData == InitData /\ [][NextData]_vars

\* The first mousemove of a session (the throttle's lastTime is still 0).
FirstMouseMoveStep ==
    /\ executions = <<>>
    /\ \E p \in MousePoints : MouseMove(p[1], p[2], Wait)

\* The handlers the segments and the tooltip depend on, with one mousemove.
NextSelection ==
    \/ OnMounted
    \/ SetColumnsCoords
    \/ ToggleLegendStep
    \/ SelectDatasetStep
    \/ DefaultSelectStep
    \/ FirstMouseMoveStep
    \/ HandleMouseLeave

SpecSelection == Init /\ [][NextSelection]_vars

\* A mousemove whose Date.now() reading is now.
MouseMoveAt(now) == \E p \in MousePoints : MouseMove(p[1], p[2], now)

\* The chart under the mouse alone: measurements, moves and leaves.
NextHover ==
    \/ OnMounted
    \/ SetColumnsCoords
    \/ MouseMoveStep
    \/ HandleMouseLeave

SpecHover == Init /\ [][NextHover]_vars

MaxLegends == 6  \* legends in the legend specification (the first 5 start active)

LegendNames == <<"a", "b", "c", "d", "e", "f", "g", "h", "i", "j", "k", "l", "m">>

\* n legends and one dataset with a metric for each of them, one column.
LegendData(n) ==
    [columns |-> 1,
     columnLabels |-> SubSeq(MonthLabels, 1, 1),
     legends |-> [k \in 1..n |-> [color |-> "#0000bb", name |-> LegendNames[k]]],
     datasetLabel |-> "",
     datasets |-> <<[id |-> StringId("d1"), name |-> "first",
                     metrics |-> [k \in 1..n |-> Metric(LegendNames[k], <<Num(k)>>)]]>>]

LegendInitialValues == {LegendData(n) : n \in 1..MaxLegends}

InitLegends == InitWith(LegendInitialValues)

\* The filter and the legend list below the chart.
NextLegends ==
    \/ ToggleLegendStep
    \/ LegendEnterStep
    \/ ResetHighlightSegment

SpecLegends == InitLegends /\ [][NextLegends]_vars

\* Shape specification: the number of values per metric is independent of
\* the number of columns (percents: number[] carries no length).
ShapeInitialValues ==
    {ChartData(c, pa, ConstSeq(Len(pa), NULL), NumberId("2")) :
        c \in 1..ChartCols,
        pa \in UNION {[1..n -> {NULL, Num(MaxVal)}] : n \in 1..MaxLen}}

SpecShapes == InitWith(ShapeInitialValues) /\ [][NextData]_vars

\* Long legend lists: one legend more than the list shows, down to one fewer.
LongLegendInitialValues ==
    {LegendData(n) : n \in (MaxShownLegends - 1)..(MaxShownLegends + 1)}

SpecLongLegends == InitWith(LongLegendInitialValues) /\ [][NextLegends]_vars

CheckboxClickStep == \E i \in 1..Len(initialValue.legends) : OnChangeChecked(i)

\* The default filter-legends control, operated by its checkboxes only.
SpecFilter == InitLegends /\ [][CheckboxClickStep]_vars

-----------------------------------------------------------------------------
(* Frontend pages: users.store (login) and the report export button *)

\* The hardcoded credentials of the store.
admin == [login |-> "admin", password |-> "Admin123321"]

user == [login |-> "user", password |-> "User123321"]

\* JSON.stringify({ role }) as stored, and getRole's JSON.parse(lct).role.
StoredRole(role) == [role |-> role]

getRole == IF lct = NULL THEN NULL ELSE lct.role

\* Variant: one matching field is enough.
CheckEitherField(fn, account, role, login, password) ==
    LET isValid == login = account.login \/ password = account.password
    IN  /\ lct' = IF isValid THEN StoredRole(role) ELSE lct
        /\ lastCheck' = [fn |-> fn, login |-> login, password |-> password,
                         isValid |-> isValid]
        /\ UNCHANGED <<chartVars, pageVars, isLoading, exportClicks, exportRequests, exportPending,
                       exportDownloads, exportErrors>>

\* checkAdmin / checkUser: compare both fields, store the role when valid,
\* return isValid.
Check(fn, account, role, login, password) ==
    LET isValid == login = account.login /\ password = account.password
    IN  /\ lct' = IF isValid THEN StoredRole(role) ELSE lct
        /\ lastCheck' = [fn |-> fn, login |-> login, password |-> password,
                         isValid |-> isValid]
        /\ UNCHANGED <<chartVars, pageVars, isLoading, exportClicks, exportRequests, exportPending,
                       exportDownloads, exportErrors>>

checkAdmin(login, password) == Check("checkAdmin", admin, "admin", login, password)

checkUser(login, password) == Check("checkUser", user, "user", login, password)

\* The named routes, and a path that matches none of them (to.name undefined).
RouteNames == {"home", "region", "auth", "loaddata"}

Unmatched == "<unmatched>"

\* beforeEach's role: JSON.parse(lct).role, or null without the item.
RoleOf(item) == IF item = NULL THEN NullStr ELSE item.role

\* Variant: a session without a role is only kept off the home page.
BeforeEachHomeOnly(to, role) ==
    IF role = NullStr /\ to = "home" THEN "auth"
    ELSE IF role = "admin" /\ to = "auth" THEN "home"
    ELSE IF role = "user" /\ (to = "auth" \/ to = "home") THEN "loaddata"
    ELSE to

\* router.beforeEach: the route next() is called with (to itself: next()).
BeforeEach(to, role) ==
    IF role = NullStr /\ to # "auth" THEN "auth"
    ELSE IF role = "admin" /\ to = "auth" THEN "home"
    ELSE IF role = "user" /\ (to = "auth" \/ to = "home") THEN "loaddata"
    ELSE to

\* The router runs the guard again on every redirect target, and gives up
\* after RedirectLimit redirects (the route then stays as it was).
RedirectLimit == Cardinality(RouteNames)

RECURSIVE Resolve(_, _, _, _)
Resolve(from, to, role, n) ==
    LET target == BeforeEach(to, role)
    IN  IF target = to THEN [route |-> to, redirects |-> n]
        ELSE IF n = RedirectLimit THEN [route |-> from, redirects |-> n + 1]
        ELSE Resolve(from, target, role, n + 1)

\* One navigation (router.push, a RouterLink, the address bar) with the
\* stored item as it is when the guard runs.
NavigateWith(to, item) ==
    LET end == Resolve(route, to, RoleOf(item), 0)
    IN  /\ route' = end.route
        /\ lastTo' = to
        /\ redirects' = end.redirects

Navigate(to) ==
    /\ NavigateWith(to, lct)
    /\ UNCHANGED <<chartVars, appVars, filterVars, tableVars, wizardVars, mapVars>>

\* logaut: localStorage.removeItem('lct'), then router.push({ name: 'auth' }).
logaut ==
    /\ lct' = NULL
    /\ NavigateWith("auth", lct')
    /\ UNCHANGED <<chartVars, filterVars, tableVars, wizardVars, mapVars, lastCheck,
                   isLoading, exportClicks, exportRequests, exportPending,
                   exportDownloads, exportErrors>>

MaxClicks == 2   \* clicks on the export button

\* A click on the export button (not clickable while :loading): getExportData
\* up to its await.
ExportClick ==
    /\ ~isLoading
    /\ exportClicks < MaxClicks
    /\ isLoading' = TRUE
    /\ exportClicks' = exportClicks + 1
    /\ exportRequests' = exportRequests + 1
    /\ exportPending' = exportPending + 1
    /\ UNCHANGED <<chartVars, pageVars, lct, lastCheck, exportDownloads, exportErrors>>

\* The request is fulfilled: the file is handed to the browser.
ExportResolve ==
    /\ exportPending > 0
    /\ exportPending' = exportPending - 1
    /\ exportDownloads' = exportDownloads + 1
    /\ isLoading' = FALSE
    /\ UNCHANGED <<chartVars, pageVars, lct, lastCheck, exportClicks, exportRequests, exportErrors>>

\* Variant: the catch block issues the request again.
ExportRejectRetrying ==
    /\ exportPending > 0
    /\ exportRequests' = exportRequests + 1
    /\ exportErrors' = exportErrors + 1
    /\ UNCHANGED <<chartVars, pageVars, lct, lastCheck, isLoading, exportClicks, exportPending,
                   exportDownloads>>

\* The request fails: the catch block resets isLoading and logs.
ExportReject ==
    /\ exportPending > 0
    /\ exportPending' = exportPending - 1
    /\ exportErrors' = exportErrors + 1
    /\ isLoading' = FALSE
    /\ UNCHANGED <<chartVars, pageVars, lct, lastCheck, exportClicks, exportRequests,
                   exportDownloads>>

\* What the login forms can hold: the credentials, and near misses.
Logins == {"admin", "user", "Admin", ""}

Passwords == {"Admin123321", "User123321", "admin123321", ""}

CheckAdminStep == \E login \in Logins, password \in Passwords : checkAdmin(login, password)

CheckUserStep == \E login \in Logins, password \in Passwords : checkUser(login, password)

NavigateStep == \E to \in RouteNames \cup {Unmatched} : Navigate(to)

NextApp ==
    \/ CheckAdminStep
    \/ CheckUserStep
    \/ logaut
    \/ ExportClick
    \/ ExportResolve
    \/ ExportReject

SpecApp == Init /\ [][NextApp]_vars

\* Sessions: logging in and out, and navigating.
NextNav ==
    \/ CheckAdminStep
    \/ CheckUserStep
    \/ logaut
    \/ NavigateStep

SpecNav == Init /\ [][NextNav]_vars

-----------------------------------------------------------------------------
(* LoadData page: the upload wizard *)

MaxUploadErrors == 2  \* failed uploads that are counted

\* nextStep, behind the button rendered while current < 1.
NextStepClick ==
    /\ current < 1
    /\ current' = current + 1
    /\ UNCHANGED <<chartVars, appVars, filterVars, tableVars, navVars, mapVars,
                   result, uploadStartTime, uploadErrors>>

\* prevStep, behind the button rendered while current > 0.
PrevStepClick ==
    /\ current > 0
    /\ current' = current - 1
    /\ UNCHANGED <<chartVars, appVars, filterVars, tableVars, navVars, mapVars,
                   result, uploadStartTime, uploadErrors>>

\* What handleChange stores for a finished upload: the server's object with
\* the loading time added, or a new object when the response is not one.  The
\* loading time is a duration only if a start time was recorded.
StoredResponse(response, start) ==
    [body |-> IF response.isObject THEN response.body ELSE "created",
     timed |-> start # NullStr]

\* Variant: a finished upload moves one step forward.
HandleChangeStepping(status, response) ==
    /\ \/ /\ status = "uploading"
          /\ uploadStartTime' = IF uploadStartTime = NullStr THEN "started" ELSE uploadStartTime
          /\ UNCHANGED <<current, result, uploadErrors>>
       \/ /\ status = "done"
          /\ uploadStartTime' = NullStr
          /\ current' = current + 1
          /\ result' = StoredResponse(response, uploadStartTime)
          /\ UNCHANGED uploadErrors
       \/ /\ status = "error"
          /\ uploadStartTime' = NullStr
          /\ uploadErrors' = uploadErrors + 1
          /\ UNCHANGED <<current, result>>
       \/ /\ status \notin {"uploading", "done", "error"}
          /\ UNCHANGED wizardVars
    /\ UNCHANGED <<chartVars, appVars, filterVars, tableVars, navVars, mapVars>>

\* handleChange(info) for info.file.status and info.file.response.
HandleChange(status, response) ==
    /\ \/ /\ status = "uploading"
          /\ uploadStartTime' = IF uploadStartTime = NullStr THEN "started" ELSE uploadStartTime
          /\ UNCHANGED <<current, result, uploadErrors>>
       \/ /\ status = "done"
          /\ uploadStartTime' = NullStr
          /\ current' = 2
          /\ result' = StoredResponse(response, uploadStartTime)
          /\ UNCHANGED uploadErrors
       \/ /\ status = "error"
          /\ uploadStartTime' = NullStr
          /\ uploadErrors' = uploadErrors + 1
          /\ UNCHANGED <<current, result>>
       \/ /\ status \notin {"uploading", "done", "error"}
          /\ UNCHANGED wizardVars
    /\ UNCHANGED <<chartVars, appVars, filterVars, tableVars, navVars, mapVars>>

\* file.response: an object from the server, or something else (a string).
Responses ==
    {[isObject |-> TRUE, body |-> "r1"], [isObject |-> TRUE, body |-> "r2"],
     [isObject |-> FALSE, body |-> "text"]}

UploadStatuses == {"uploading", "done", "error", "removed"}

UploadEventStep ==
    \E status \in UploadStatuses, response \in Responses :
        /\ status = "error" => uploadErrors < MaxUploadErrors
        /\ HandleChange(status, response)

NextUpload ==
    \/ NextStepClick
    \/ PrevStepClick
    \/ UploadEventStep

SpecUpload == Init /\ [][NextUpload]_vars

-----------------------------------------------------------------------------
(* Map card: the heat map of the regions *)

Indicators == {"flights_count", "flight_density"}

Periods == {"Y", "Q1"}

Regions == {1, 2}

\* Math.log1p(v) for v >= 0 is kept as a term: it is strictly increasing, so
\* terms are ordered by their argument, and log1p(v) > 0 exactly when v > 0.
Log1p(v) == [log1p |-> v]

\* data: one item per region with metrics = log1p of the selected indicator
\* in the selected period's statistics.
DataOf(statistics, period, indicator) ==
    [r \in Regions |-> Log1p(statistics[period][r][indicator])]

data == DataOf(store, selectPeriod, selectIndicator)

MinOf(S) == CHOOSE m \in S : \A k \in S : m <= k

\* maxValue: Math.max over the metrics.
MapMaxValue(items) == Log1p(SeqMax({items[r].log1p : r \in Regions}))

\* minPositiveValue: the least metric > 0, or the number 1 if there is none.
MinPositiveValue(items) ==
    LET positives == {items[r].log1p : r \in Regions} \ {0}
    IN  IF positives # {} THEN Log1p(MinOf(positives)) ELSE [number |-> 1]

\* The stops of the layer's 'interpolate' expression.
RangeOf(items) == [min |-> MinPositiveValue(items), max |-> MapMaxValue(items)]

\* The stores are fetched (the card is rendered with loaded stores).
StoreLoaded ==
    /\ store = NULL
    /\ store' \in [Periods -> [Regions -> [Indicators -> 0..MaxVal]]]
    /\ UNCHANGED <<chartVars, appVars, filterVars, tableVars, navVars, wizardVars,
                   selectIndicator, selectPeriod, layerRange, featureMetrics>>

\* map.on('load'): addSource and addLayer with the stops read at this moment.
MapLoad ==
    /\ store # NULL
    /\ layerRange = NULL
    /\ layerRange' = RangeOf(data)
    /\ UNCHANGED <<chartVars, appVars, filterVars, tableVars, navVars, wizardVars,
                   store, selectIndicator, selectPeriod, featureMetrics>>

\* watch(data): setFeatureState for every region (the map instance exists
\* since onMounted).
WatchData(items) == featureMetrics' = items

\* The indicator select (v-model), followed by watch(data).
ChangeIndicator(indicator) ==
    /\ store # NULL
    /\ indicator # selectIndicator
    /\ selectIndicator' = indicator
    /\ WatchData(DataOf(store, selectPeriod, indicator))
    /\ UNCHANGED <<chartVars, appVars, filterVars, tableVars, navVars, wizardVars,
                   store, selectPeriod, layerRange>>

\* The period select (v-model), followed by watch(data).
ChangePeriod(period) ==
    /\ store # NULL
    /\ period # selectPeriod
    /\ selectPeriod' = period
    /\ WatchData(DataOf(store, period, selectIndicator))
    /\ UNCHANGED <<chartVars, appVars, filterVars, tableVars, navVars, wizardVars,
                   store, selectIndicator, layerRange>>

\* map.on('sourcedata') for the division source: setFeatureState again.
SourceData ==
    /\ layerRange # NULL
    /\ featureMetrics' = data
    /\ UNCHANGED <<chartVars, appVars, filterVars, tableVars, navVars, wizardVars,
                   store, selectIndicator, selectPeriod, layerRange>>

NextMap ==
    \/ StoreLoaded
    \/ MapLoad
    \/ \E indicator \in Indicators : ChangeIndicator(indicator)
    \/ \E period \in Periods : ChangePeriod(period)
    \/ SourceData

SpecMap == Init /\ [][NextMap]_vars

-----------------------------------------------------------------------------
(* Rating table: the activity index cell *)

MaxIndex == 100  \* activity indexes range over 0..MaxIndex in steps of 1/2

ActivityIndexes == {Rat(k, 2) : k \in 0..(2 * MaxIndex)}

\* The table renders a cell: :class="paints(region.activity_index)".
RenderCell ==
    \E value \in ActivityIndexes :
        /\ activityIndex' = value
        /\ paintClass' = paints(value)
        /\ UNCHANGED <<chartVars, appVars, filterVars, navVars, wizardVars, mapVars,
                       tableRows, sort>>

SpecPaints == Init /\ [][RenderCell]_vars

-----------------------------------------------------------------------------
(* Rating table: sorting *)

\* The sort keys the header buttons set.
SortKeys ==
    {"rating", "name", "activity_index", "flights_count_year", "flight_density_year",
     "total_duration_hours", "avg_duration_minutes", "median_duration_minutes",
     "zero_flight_days", "time_distribution"}

\* The switch of sortedData: the field compared for a sort key.
SortValue(row, by) ==
    CASE by = "rating" -> row.rating
      [] by = "activity_index" -> row.activity_index
      [] by = "avg_duration_minutes" -> row.avg_duration_minutes
      [] by = "flights_count_year" -> row.flights_count
      [] by = "time_distribution" -> row.flights_count
      [] by = "flight_density_year" -> row.flight_density
      [] by = "total_duration_hours" -> row.total_duration_hours
      [] by = "median_duration_minutes" -> row.median_duration_minutes
      [] by = "zero_flight_days" -> row.zero_flight_days
      [] OTHER -> row.region_name

\* Region names, in the order localeCompare gives them.
RegionNames == <<"Altai", "Bryansk">>

NameRank(name) == CHOOSE k \in 1..Len(RegionNames) : RegionNames[k] = name

\* valueA.localeCompare(valueB), as a sign.
LocaleCompare(a, b) == Sign(NameRank(a) - NameRank(b))

\* The comparator of sortedData: strings by localeCompare, else by difference.
Compare(a, b, s) ==
    IF s.by \notin (SortKeys \ {"name"})
    THEN IF s.direction = "asc" THEN LocaleCompare(SortValue(a, s.by), SortValue(b, s.by))
         ELSE LocaleCompare(SortValue(b, s.by), SortValue(a, s.by))
    ELSE IF s.direction = "asc" THEN SortValue(a, s.by) - SortValue(b, s.by)
         ELSE SortValue(b, s.by) - SortValue(a, s.by)

\* Array.prototype.sort is stable: a row goes after the last row that does
\* not compare greater than it.
InsertRow(sorted, row, s) ==
    LET notGreater == {i \in 1..Len(sorted) : Compare(sorted[i], row, s) <= 0}
        k == IF notGreater = {} THEN 0 ELSE SeqMax(notGreater)
    IN  SubSeq(sorted, 1, k) \o <<row>> \o SubSeq(sorted, k + 1, Len(sorted))

RECURSIVE SortRows(_, _, _)
SortRows(rows, n, s) ==
    IF n = 0 THEN <<>> ELSE InsertRow(SortRows(rows, n - 1, s), rows[n], s)

\* sortedData: a sorted copy of store.regional_statistics.
sortedData == SortRows(tableRows, Len(tableRows), sort)

\* A store row; the fields the model does not vary are taken from the rating.
RegionRow(r, index, flights, morning) ==
    [region_id |-> r, region_name |-> RegionNames[r], rating |-> r,
     activity_index |-> index, flights_count |-> flights,
     flight_density |-> flights, total_duration_hours |-> 2 * flights,
     avg_duration_minutes |-> r, median_duration_minutes |-> Len(RegionNames) - r,
     zero_flight_days |-> MaxVal - index,
     time_distribution |-> [morning_flights |-> morning, day_flights |-> morning,
                            evening_flights |-> 0]]

TableStores ==
    {<<RegionRow(1, i1, f1, m1), RegionRow(2, i2, f2, m2)>> :
        i1 \in 0..MaxVal, f1 \in 0..MaxVal, m1 \in 0..MaxVal,
        i2 \in 0..MaxVal, f2 \in 0..MaxVal, m2 \in 0..MaxVal}

\* The store is fetched (the table is rendered with a loaded store).
TableStoreLoaded ==
    /\ tableRows = NULL
    /\ tableRows' \in TableStores
    /\ UNCHANGED <<chartVars, appVars, filterVars, navVars, wizardVars, mapVars,
                   activityIndex, paintClass, sort>>

\* The click handler of a column's sort button.
SortClick(by) ==
    /\ tableRows # NULL
    /\ sort' = IF sort.by = by
               THEN [sort EXCEPT !.direction = IF sort.direction = "asc" THEN "desc" ELSE "asc"]
               ELSE [by |-> by, direction |-> "desc"]
    /\ UNCHANGED <<chartVars, appVars, filterVars, navVars, wizardVars, mapVars,
                   activityIndex, paintClass, tableRows>>

NextTable ==
    \/ TableStoreLoaded
    \/ \E by \in SortKeys : SortClick(by)

SpecTable == Init /\ [][NextTable]_vars

-----------------------------------------------------------------------------
(* Properties *)

IsList(computed) == computed # NULL /\ computed # THROWS

ActiveDatasets ==
    {k \in 1..Len(initialValue.datasets) : initialValue.datasets[k].id = filterIdDataset}

\* The metrics of dataset d whose name is among the given legends, in metric order.
VisibleMetricsOf(d, legendList) ==
    SelectSeq(d.metrics, LAMBDA m : m.name \in NamesOf(legendList))

Range(list) == {list[k] : k \in 1..Len(list)}

\* The non-null values (as integers) of the visible metrics of the active dataset.
VisibleValues(legendList) ==
    UNION {UNION {{m.percents[j].num : j \in {j \in 1..Len(m.percents) : m.percents[j] # NULL}} :
                     m \in {m \in Range(initialValue.datasets[k].metrics) :
                               m.name \in NamesOf(legendList)}} :
              k \in ActiveDatasets}

\* The computed values in the state a step leads to.
segmentsNext == SegmentsOf(columnsCoords', axisYOrigin', filterIdDataset', filterLegends')

SeriesOf(list) == [k \in 1..Len(list) |-> [id |-> list[k].id, name |-> list[k].name,
                                            color |-> list[k].color]]

\* C1: toggling a visible legend off removes exactly the series of that name
\* from the computed segments; the other series stay, in the same order.
C1_ToggleOffRemovesExactlyThatSeries ==
    [][\A name \in LegendNameInputs :
          (/\ UpdateFilterLegend(name)
           /\ name \in NamesOf(filterLegends)
           /\ IsList(segments))
          => /\ IsList(segmentsNext)
             /\ SeriesOf(segmentsNext.list)
                    = SeriesOf(SelectSeq(segments.list, LAMBDA g : g.name # name))]_vars

C1_Witness ==
    /\ IsList(segments)
    /\ Len(segments.list) = 1
    /\ Len(filterLegends) < Len(InitialFilterLegends(initialValue.legends))

\* C2 as stated: toggling a visible legend off leaves pointCoords and
\* pathCoords of every other visible series identical.
C2_OthersCoordsUnchanged ==
    [][\A name \in LegendNameInputs :
          (/\ UpdateFilterLegend(name)
           /\ name \in NamesOf(filterLegends)
           /\ IsList(segments))
          => /\ IsList(segmentsNext)
             /\ \A k \in 1..Len(segments.list) :
                   segments.list[k].name # name
                   => \E i \in 1..Len(segmentsNext.list) :
                         /\ segmentsNext.list[i].id = segments.list[k].id
                         /\ segmentsNext.list[i].pointCoords = segments.list[k].pointCoords
                         /\ segmentsNext.list[i].pathCoords = segments.list[k].pathCoords]_vars

SetMax(S) == CHOOSE m \in S : \A k \in S : k <= m

\* The largest visible value is the same with the given legends as in the state.
SameVisibleMaximum(legendList) ==
    \/ VisibleValues(legendList) = {}
    \/ /\ VisibleValues(filterLegends) # {}
       /\ SetMax(VisibleValues(legendList)) = SetMax(VisibleValues(filterLegends))

XsOf(pointCoords) == [j \in 1..Len(pointCoords) |-> pointCoords[j].x]

\* C2 amended: toggling a visible legend off keeps every other visible series,
\* with the same x coordinates and the same gaps; its pointCoords and
\* pathCoords are identical whenever the largest visible non-null value is the
\* same before and after the toggle.
C2_OthersCoordsUnchangedWhenMaxKept ==
    [][\A name \in LegendNameInputs :
          (/\ UpdateFilterLegend(name)
           /\ name \in NamesOf(filterLegends)
           /\ IsList(segments))
          => /\ IsList(segmentsNext)
             /\ \A k \in 1..Len(segments.list) :
                   segments.list[k].name # name
                   => \E i \in 1..Len(segmentsNext.list) :
                         /\ segmentsNext.list[i].id = segments.list[k].id
                         /\ XsOf(segmentsNext.list[i].pointCoords)
                                = XsOf(segments.list[k].pointCoords)
                         /\ SameVisibleMaximum(filterLegends')
                            => /\ segmentsNext.list[i].pointCoords
                                      = segments.list[k].pointCoords
                               /\ segmentsNext.list[i].pathCoords
                                      = segments.list[k].pathCoords]_vars

\* A series was toggled off that did not hold the largest value: the one left
\* has numeric points and the maximum over all legends is still its own.
C2_Witness ==
    /\ IsList(segments)
    /\ axisYOrigin # NULL
    /\ Len(filterLegends) = 1
    /\ Len(segments.list) = 1
    /\ VisibleValues(filterLegends) # {}
    /\ VisibleValues(initialValue.legends) # VisibleValues(filterLegends)
    /\ SetMax(VisibleValues(initialValue.legends)) = SetMax(VisibleValues(filterLegends))

\* The metric behind the k-th computed segment: the k-th visible metric.
MetricOfSegment(k) ==
    VisibleMetricsOf(initialValue.datasets[CHOOSE d \in ActiveDatasets : TRUE],
                     filterLegends)[k]

\* C4: a null value at index j splits the path: pathCoords[k] joins point k to
\* point k+1 only, and the elements touching j have a null endpoint.
C4_PathSplitAtNull ==
    IsList(segments) =>
        \A k \in 1..Len(segments.list) :
            LET seg == segments.list[k]
                percents == MetricOfSegment(k).percents
            IN  /\ Len(seg.pathCoords) = (IF Len(percents) = 0 THEN 0 ELSE Len(percents) - 1)
                /\ \A i \in 1..Len(seg.pathCoords) :
                      /\ seg.pathCoords[i].start = seg.pointCoords[i]
                      /\ seg.pathCoords[i].end = seg.pointCoords[i + 1]
                /\ \A j \in 1..Len(percents) :
                      percents[j] = NULL
                      => /\ j > 1 => seg.pathCoords[j - 1].end = NullableCoord
                         /\ j < Len(percents) => seg.pathCoords[j].start = NullableCoord

\* A visible metric with a null between two numeric values.
C4_Witness ==
    /\ IsList(segments)
    /\ \E k \in 1..Len(segments.list) :
          \E j \in 2..(Len(MetricOfSegment(k).percents) - 1) :
              /\ MetricOfSegment(k).percents[j] = NULL
              /\ MetricOfSegment(k).percents[j - 1] # NULL
              /\ MetricOfSegment(k).percents[j + 1] # NULL
              /\ Len(segments.list[k].pathCoords) >= 2

IsNumber(v) == DOMAIN v = {"num", "den"}

\* C5: pointCoords has one entry per value; the entry is the absent coordinate
\* {x: null, y: null} exactly when the value is null, and a pair of numbers
\* otherwise.
C5_NullCoordIffNullValue ==
    IsList(segments) =>
        \A k \in 1..Len(segments.list) :
            LET seg == segments.list[k]
                percents == MetricOfSegment(k).percents
            IN  /\ Len(seg.pointCoords) = Len(percents)
                /\ \A j \in 1..Len(percents) :
                      /\ seg.pointCoords[j] = NullableCoord <=> percents[j] = NULL
                      /\ percents[j] # NULL
                         => /\ IsNumber(seg.pointCoords[j].x)
                            /\ IsNumber(seg.pointCoords[j].y)

\* A visible metric holding a null, a zero and a positive value.
C5_Witness ==
    /\ IsList(segments)
    /\ axisYOrigin # NULL
    /\ \E k \in 1..Len(segments.list) :
          /\ NULL \in Range(MetricOfSegment(k).percents)
          /\ Num(0) \in Range(MetricOfSegment(k).percents)
          /\ Num(1) \in Range(MetricOfSegment(k).percents)

\* C6: the normalization basis is the largest non-null value of the metrics of
\* the active dataset whose name is in filterLegends, and 100 when there is no
\* such value (also when the id matches no dataset).
C6_MaxValueVisibleOnly ==
    maxValue = IF VisibleValues(filterLegends) = {} THEN Num(100)
               ELSE Num(SetMax(VisibleValues(filterLegends)))

\* Another dataset is active, its only visible metric has no value, and a
\* hidden metric of it has values.
C6_Witness ==
    /\ filterIdDataset = initialValue.datasets[2].id
    /\ Len(filterLegends) = 1
    /\ VisibleValues(filterLegends) = {}
    /\ VisibleValues(initialValue.legends) # {}
    /\ maxValue = Num(100)

\* C3: a step that changes the active legend set changes nothing else of the
\* reactive state.
C3_ToggleChangesOnlyLegends ==
    [][filterLegends' # filterLegends
          => UNCHANGED <<filterIdDataset, mouseCoords, hoveredSegment, highlightSegment,
                         columnsCoords, axisYOrigin>>]_vars

\* Legends were toggled while every other part of the state is off its default.
C3_Witness ==
    /\ filterLegends # InitialFilterLegends(initialValue.legends)
    /\ filterIdDataset # initialValue.datasets[1].id
    /\ mouseCoords # ResetCoords
    /\ hoveredSegment # NULL
    /\ highlightSegment # NullStr
    /\ columnsCoords # NULL
    /\ axisYOrigin # NULL

\* C7: two consecutive executions of the throttled handler are at least
\* Wait ms of Date.now() apart.
C7_ExecutionsWaitApart ==
    \A k \in 1..(Len(executions) - 1) : executions[k + 1] - executions[k] >= Wait

\* The throttled handler executed at least twice.
C7_Witness == Len(executions) >= 2

\* C8: while columnsCoords is null, segments is null and tooltip is null for
\* every hovered column (neither throws); tooltip is null whenever
\* hoveredSegment is null.
C8_NotMeasuredIsNull ==
    /\ columnsCoords = NULL
       => /\ segments = NULL
          /\ \A h \in HoverInputs \cup {NULL} :
                TooltipOf(columnsCoords, h, filterIdDataset, filterLegends) = NULL
    /\ hoveredSegment = NULL => tooltip = NULL

\* Columns are not measured although the filters were used and the origin is set.
C8_Witness ==
    /\ columnsCoords = NULL
    /\ axisYOrigin # NULL
    /\ filterLegends # InitialFilterLegends(initialValue.legends)
    /\ filterIdDataset # initialValue.datasets[1].id

DatasetsWithId(id) ==
    {k \in 1..Len(initialValue.datasets) : initialValue.datasets[k].id = id}

\* segs are the segments of the dataset whose id is the given one: one per
\* visible metric, in metric order; null with the tooltip when there is none.
C10_DerivedOf(id, legendList, coords, segs, tip) ==
    /\ DatasetsWithId(id) = {} => segs = NULL /\ tip = NULL
    /\ (DatasetsWithId(id) # {} /\ coords # NULL)
       => /\ IsList(segs)
          /\ Cardinality(DatasetsWithId(id)) = 1
          /\ LET d == initialValue.datasets[CHOOSE k \in DatasetsWithId(id) : TRUE]
                 visible == VisibleMetricsOf(d, legendList)
             IN  /\ Len(segs.list) = Len(visible)
                 /\ \A k \in 1..Len(visible) :
                       /\ segs.list[k].name = visible[k].name
                       /\ segs.list[k].id.datasetId = d.id.text
                       /\ segs.list[k].id.datasetName = d.name
                       /\ Len(segs.list[k].pointCoords) = Len(visible[k].percents)
                       /\ \A j \in 1..Len(visible[k].percents) :
                             segs.list[k].pointCoords[j] = NullableCoord
                                 <=> visible[k].percents[j] = NULL

\* C10: the first dataset is active initially, and in the initial state and
\* after every step (updateIdDataset among them) the segments are derived from
\* the dataset whose id is filterIdDataset alone (null, with the tooltip, when
\* the id matches no dataset).
C10_SegmentsOfSelectedDataset ==
    /\ filterIdDataset = initialValue.datasets[1].id
    /\ C10_DerivedOf(filterIdDataset, filterLegends, columnsCoords, segments, tooltip)
    /\ [][C10_DerivedOf(filterIdDataset', filterLegends', columnsCoords', segmentsNext,
                        TooltipOf(columnsCoords', hoveredSegment', filterIdDataset',
                                  filterLegends'))]_vars

\* The second dataset was selected while a column is hovered.
C10_Witness ==
    /\ filterIdDataset = initialValue.datasets[2].id
    /\ hoveredSegment # NULL
    /\ IsList(segments)
    /\ Len(segments.list) >= 1

\* The colour of the legend called name, black when there is none.
LegendColour(name) ==
    LET named == {l \in Range(initialValue.legends) : l.name = name}
    IN  IF named = {} THEN "#000000" ELSE (CHOOSE l \in named : TRUE).color

\* C11: a non-null tooltip carries the hovered column's name, one entry per
\* visible metric of the active dataset (dataset order, hidden metrics left
\* out) with the metric's value at the hovered column and its legend's colour,
\* and the measured coordinates of the hovered column.
C11_TooltipPayload ==
    tooltip # NULL =>
        LET d == initialValue.datasets[CHOOSE k \in ActiveDatasets : TRUE]
            visible == VisibleMetricsOf(d, filterLegends)
            column == hoveredSegment.id + 1
        IN  /\ ActiveDatasets # {}
            /\ tooltip.name = initialValue.columnLabels[column]
            /\ Len(tooltip.metrics) = Len(visible)
            /\ \A k \in 1..Len(visible) :
                  /\ tooltip.metrics[k].name = visible[k].name
                  /\ tooltip.metrics[k].percent = visible[k].percents[column]
                  /\ tooltip.metrics[k].color = LegendColour(visible[k].name)
            /\ tooltip.position = columnsCoords.list[column]

\* The second column is hovered while one of the two metrics is hidden.
C11_Witness ==
    /\ tooltip # NULL
    /\ hoveredSegment.id = 1
    /\ Len(tooltip.metrics) = 1
    /\ Len(filterLegends) < Len(initialValue.legends)

\* The largest visible non-null value of the active dataset, as a number.
VisibleMaximum == Num(SetMax(VisibleValues(filterLegends)))

\* origin - (v / M) * origin
OffsetFromOrigin(v, M, origin) == RSub(origin, RMul(RDiv(v, M), origin))

\* The points of the visible metrics follow the normalisation formula.
PointsFollowFormula ==
    \A k \in 1..Len(segments.list) :
        LET percents == MetricOfSegment(k).percents
            points == segments.list[k].pointCoords
        IN  \A j \in 1..Len(percents) :
                percents[j] # NULL
                => /\ points[j].x = columnsCoords.list[j].x
                   /\ points[j].y = OffsetFromOrigin(percents[j], VisibleMaximum,
                                                     axisYOrigin)

\* A value equal to the maximum lies at y = 0 and a value of 0 at y = origin.
ExtremesAtAxisEnds ==
    \A k \in 1..Len(segments.list) :
        LET percents == MetricOfSegment(k).percents
            points == segments.list[k].pointCoords
        IN  \A j \in 1..Len(percents) :
                /\ (percents[j] # NULL /\ percents[j] = VisibleMaximum)
                   => points[j].y = Num(0)
                /\ percents[j] = Num(0) => points[j].y = axisYOrigin

\* C12 as stated: with the origin and the columns measured, every non-null
\* value v at column j of a visible metric lies at x = columnsCoords[j].x,
\* y = origin - (v / M) * origin; a value equal to M lies at y = 0 and a value
\* of 0 at y = origin.
C12_PointFormula ==
    (IsList(segments) /\ axisYOrigin # NULL)
    => /\ PointsFollowFormula
       /\ ExtremesAtAxisEnds

\* The same, for the states whose visible maximum is not 0.
C12_PointFormulaNonZeroMax ==
    (IsList(segments) /\ axisYOrigin # NULL /\ VisibleValues(filterLegends) # {0})
    => /\ PointsFollowFormula
       /\ ExtremesAtAxisEnds

\* C20 as stated: with the origin and the columns measured (all values being
\* non-negative or null), every non-null point of every visible segment has a
\* finite y with 0 <= y <= axisYOrigin.
C20_YWithinAxis ==
    (IsList(segments) /\ axisYOrigin # NULL)
    => \A k \in 1..Len(segments.list) :
          \A j \in 1..Len(segments.list[k].pointCoords) :
              LET point == segments.list[k].pointCoords[j]
              IN  point # NullableCoord
                  => /\ IsFinite(point.y)
                     /\ RLeq(Num(0), point.y)
                     /\ RLeq(point.y, axisYOrigin)

\* The same, for the states whose visible maximum is not 0.
C20_YWithinAxisNonZeroMax ==
    (IsList(segments) /\ axisYOrigin # NULL /\ VisibleValues(filterLegends) # {0})
    => \A k \in 1..Len(segments.list) :
          \A j \in 1..Len(segments.list[k].pointCoords) :
              LET point == segments.list[k].pointCoords[j]
              IN  point # NullableCoord
                  => /\ IsFinite(point.y)
                     /\ RLeq(Num(0), point.y)
                     /\ RLeq(point.y, axisYOrigin)

\* The record column c (1-based) passes to updateHoveredSegment.
HoverOf(c) == [id |-> c - 1, name |-> initialValue.columnLabels[c]]

\* The position lies strictly between the left and right edge of column c.
StrictlyInside(coords, c) ==
    /\ useIsMouseInside(coords, ElementBounds(c))
    /\ coords.x # ElementBounds(c).left
    /\ coords.x # ElementBounds(c).right

\* C13 as stated: when a mouse position is recorded that lies inside the bounds
\* of column c while at least one segment is rendered, hoveredSegment is that
\* column's record once the watchers have run, whatever happened before.
C13_HoverFollowsCursor ==
    [][executions' # executions
          => \A c \in 1..initialValue.columns :
                (useIsMouseInside(mouseCoords', ElementBounds(c)) /\ ~NoSegments(segments))
                => hoveredSegment' = HoverOf(c)]_vars

\* The same, for positions that are on no edge shared by two columns.
C13_HoverFollowsCursorOffEdges ==
    [][executions' # executions
          => \A c \in 1..initialValue.columns :
                (StrictlyInside(mouseCoords', c) /\ ~NoSegments(segments))
                => hoveredSegment' = HoverOf(c)]_vars

ActiveColumns == {c \in 1..initialValue.columns : isActive[c]}

\* C18 as stated: at most one column is active at any time, and
\* hoveredSegment names the single active column.
C18_AtMostOneActive ==
    /\ Cardinality(ActiveColumns) <= 1
    /\ \A c \in ActiveColumns : hoveredSegment = HoverOf(c)

\* The first half alone: no two columns are active together.
C18_NoTwoActive == Cardinality(ActiveColumns) <= 1

\* C19 as stated: after handleMouseLeave and its watchers, mouseCoords is
\* (-1, -1), hoveredSegment and tooltip are null and no column is active.
C19_LeaveRestoresNoHover ==
    [][HandleMouseLeave
          => /\ mouseCoords' = ResetCoords
             /\ hoveredSegment' = NULL
             /\ TooltipOf(columnsCoords', hoveredSegment', filterIdDataset',
                          filterLegends') = NULL
             /\ \A c \in 1..initialValue.columns : ~isActive'[c]]_vars

\* The same without the columns: the store's part of the no-hover state.
C19_LeaveResetsStore ==
    [][HandleMouseLeave
          => /\ mouseCoords' = ResetCoords
             /\ hoveredSegment' = NULL
             /\ TooltipOf(columnsCoords', hoveredSegment', filterIdDataset',
                          filterLegends') = NULL]_vars

\* C16: toggling any name twice restores filterLegends; filterLegends is a
\* duplicate-free subsequence of the initial legends in their original order;
\* toggling a name that is no legend changes nothing.
C16_ToggleInvolution ==
    /\ \A name \in LegendNameInputs :
          ToggleLegend(ToggleLegend(filterLegends, name), name) = filterLegends
    /\ Range(filterLegends) \subseteq Range(initialValue.legends)
    /\ Cardinality(Range(filterLegends)) = Len(filterLegends)
    /\ filterLegends = SelectSeq(initialValue.legends,
                                 LAMBDA legend : legend \in Range(filterLegends))
    /\ \A name \in LegendNameInputs \ NamesOf(initialValue.legends) :
          ToggleLegend(filterLegends, name) = filterLegends

\* More legends than start active: the last one was toggled on and the first
\* one off.
C16_Witness ==
    /\ Len(initialValue.legends) > InitialLegendCount
    /\ initialValue.legends[Len(initialValue.legends)] \in Range(filterLegends)
    /\ initialValue.legends[1] \notin Range(filterLegends)
    /\ Len(filterLegends) >= 2

\* The throttle's memory is the last executed call, a call that arrives
\* less than Wait ms after it changes nothing at all (nothing is kept to run
\* later), and a call that arrives at least Wait ms after it passes the guard.
ThrottleKeepsNothing ==
    /\ lastTime = IF executions = <<>> THEN 0 ELSE executions[Len(executions)]
    /\ \A now \in Times :
          /\ now - lastTime < Wait => ~ENABLED <<MouseMoveAt(now)>>_vars
          /\ now - lastTime >= Wait => ThrottlePasses(now, lastTime, Wait)
          /\ executions = <<>> => ThrottlePasses(now, lastTime, Wait)

\* An execution is added only by a call that arrives at least Wait ms after
\* the last executed one, in the same step, with the position recorded.
ExecutedAtOnce ==
    executions' # executions
    => \E now \in Times :
          /\ now - lastTime >= Wait
          /\ executions' = Append(executions, now)
          /\ lastTime' = now
          /\ \E p \in MousePoints : mouseCoords' = [x |-> Num(p[1]), y |-> Num(p[2])]

\* C17: the throttle is leading-edge only: the first call and every call that
\* arrives at least Wait ms after the last executed call is executed at once,
\* a call that arrives earlier is discarded and never executed later.
C17_LeadingEdgeOnly == []ThrottleKeepsNothing /\ [][ExecutedAtOnce]_vars

\* Two calls were executed exactly Wait ms apart, and a call at some later
\* reading would still be too early.
C17_Witness ==
    /\ Len(executions) = 2
    /\ executions[2] - executions[1] = Wait
    /\ \E now \in Times : now - lastTime < Wait
    /\ mouseCoords # ResetCoords

\* C14: checkAdmin returns true and stores role 'admin' exactly when both
\* arguments are the admin credentials, checkUser likewise for the user
\* credentials and role 'user'; a failed check returns false and leaves the
\* stored item as it was.
C14_CredentialCheck ==
    [][\A login \in Logins, password \in Passwords :
          /\ checkAdmin(login, password)
             => IF login = "admin" /\ password = "Admin123321"
                THEN lastCheck'.isValid /\ lct' = [role |-> "admin"]
                ELSE ~lastCheck'.isValid /\ lct' = lct
          /\ checkUser(login, password)
             => IF login = "user" /\ password = "User123321"
                THEN lastCheck'.isValid /\ lct' = [role |-> "user"]
                ELSE ~lastCheck'.isValid /\ lct' = lct]_vars

\* A check with the other account's password failed while a role was stored.
C14_Witness ==
    /\ lastCheck # NULL
    /\ lastCheck.fn = "checkAdmin"
    /\ lastCheck.login = "admin"
    /\ lastCheck.password = "User123321"
    /\ ~lastCheck.isValid
    /\ lct = StoredRole("user")

\* C15: isLoading is true exactly while a request is pending (from the click
\* until it settles, false after success and after failure); every request
\* comes from a click, so a failed request is logged and not retried.
C15_LoadingAndNoRetry ==
    /\ isLoading <=> exportPending = 1
    /\ exportPending \in {0, 1}
    /\ exportRequests = exportClicks
    /\ exportRequests = exportPending + exportDownloads + exportErrors

\* A request failed and was logged, and the next click's request is pending.
C15_Witness ==
    /\ exportErrors = 1
    /\ exportClicks = 2
    /\ exportPending = 1
    /\ isLoading

\* C21: once column positions are available, computing segments yields a
\* value (null or a list) for every dataset shape, never an exception.
C21_SegmentsNeverThrow == columnsCoords # NULL => segments # THROWS

\* C21, restricted: no exception while no visible metric of the selected
\* dataset has a non-null value beyond the measured columns.
C21_SegmentsThrowOnlyBeyondColumns ==
    (/\ columnsCoords # NULL
     /\ \A d \in ActiveDatasets :
            \A m \in Range(VisibleMetricsOf(initialValue.datasets[d], filterLegends)) :
            \A j \in 1..Len(m.percents) :
                m.percents[j] # NULL => j <= initialValue.columns)
    => segments # THROWS

\* C22: choosing a dataset in the default select control activates it, for
\* number as well as string identifiers: afterwards the selected identifier
\* is a key of the chosen dataset and, with measured columns, segments is
\* non-null.
C22_DefaultSelectActivates ==
    [][\A k \in 1..Len(initialValue.datasets) :
          OnChangeDataset(initialValue.datasets[k])
          => /\ MapGet(initialValue.datasets, filterIdDataset', "id") = initialValue.datasets[k]
             /\ columnsCoords # NULL => segmentsNext # NULL]_vars

\* C22, restricted to datasets whose identifier is a string.
C22_DefaultSelectActivatesStringIds ==
    [][\A k \in 1..Len(initialValue.datasets) :
          (/\ initialValue.datasets[k].id.type = "string"
           /\ OnChangeDataset(initialValue.datasets[k]))
          => /\ MapGet(initialValue.datasets, filterIdDataset', "id") = initialValue.datasets[k]
             /\ columnsCoords # NULL => segmentsNext # NULL]_vars

\* C23: in the default legend filter a legend's checkbox is checked exactly
\* when its series is in filterLegends, initially and after any clicks.
C23_CheckedIffFiltered ==
    \A i \in 1..Len(initialValue.legends) :
        checked[i] <=> SomeLegendNamed(filterLegends, initialValue.legends[i].name)

\* C23, restricted to the checkboxes of the first five legends.
C23_CheckedIffFilteredFirstFive ==
    \A i \in 1..Min(InitialLegendCount, Len(initialValue.legends)) :
        checked[i] <=> SomeLegendNamed(filterLegends, initialValue.legends[i].name)

\* C24: the legend list shows at most 11 entries, the '+N' item is rendered
\* only when N >= 1, and entries shown plus N equals the active legends.
C24_LegendListBounded ==
    /\ Len(ShownLegends) <= 11
    /\ ExtraItemShown => ExtraItemCount >= 1
    /\ Len(ShownLegends) + ExtraItemCount = Len(filterLegends)

\* C24 without the condition on the '+N' item.
C24_LegendListCounts ==
    /\ Len(ShownLegends) <= 11
    /\ Len(ShownLegends) + ExtraItemCount = Len(filterLegends)

\* The four colour tiers, lowest first.
Tier(class) ==
    CASE class = "bg-[#F59E9E]" -> 0
      [] class = "bg-[#FFE2E2]" -> 1
      [] class = "bg-[#D7EDC2]" -> 2
      [] class = "bg-[#B0DA86]" -> 3

\* The tier the thresholds 75, 50 and 25 give a value.
TierByThresholds(value) ==
    IF RLeq(Num(75), value) THEN 3
    ELSE IF RLeq(Num(50), value) THEN 2
    ELSE IF RLeq(Num(25), value) THEN 1
    ELSE 0

\* C25: paints puts every activity index, integer or fractional, in the tier
\* given by the thresholds 75, 50 and 25, so a larger index never gets a
\* lower tier than a smaller one.
C25_TierByThresholdsMonotone ==
    /\ [](Tier(paintClass) = TierByThresholds(activityIndex))
    /\ [][RLeq(activityIndex, activityIndex') => Tier(paintClass) <= Tier(paintClass')]_vars

\* C25, restricted to integer activity indexes.
C25_TierByThresholdsIntegers ==
    activityIndex.den = 1 => Tier(paintClass) = TierByThresholds(activityIndex)

\* No page other than the login page is shown to a session without a role.
NoRoleNoPage == lct = NULL => route \in {"auth", NullStr}

\* What a navigation must do for a session without a role and for an admin.
GuardedNavigation ==
    \A to \in RouteNames \cup {Unmatched} :
        Navigate(to)
        => /\ (lct = NULL /\ to # "auth") => route' = "auth"
           /\ (RoleOf(lct) = "admin" /\ to = "auth") => route' = "home"
           /\ redirects' <= 1
           /\ BeforeEach(route', RoleOf(lct)) = route'

\* C26: with no stored role every navigation to a route other than 'auth'
\* ends at 'auth', so no other page is shown; with role 'admin' a navigation
\* to 'auth' ends at 'home'; every navigation settles after at most one
\* redirect.
C26_GuardRedirects == []NoRoleNoPage /\ [][GuardedNavigation]_vars

\* A session without a role asked for a region dashboard and was sent to auth.
C26_Witness ==
    /\ lct = NULL
    /\ lastTo = "region"
    /\ route = "auth"
    /\ redirects = 1

\* C27: with role 'user' a navigation to any route ends at 'loaddata'.
C27_UserOnlyLoaddata ==
    [][\A to \in RouteNames :
          (Navigate(to) /\ RoleOf(lct) = "user") => route' = "loaddata"]_vars

\* C27, restricted to the routes auth, home and loaddata.
C27_UserOnlyLoaddataButRegion ==
    [][\A to \in RouteNames \ {"region"} :
          (Navigate(to) /\ RoleOf(lct) = "user") => route' = "loaddata"]_vars

\* The step index is one of the three steps.
CurrentInRange == current \in {0, 1, 2}

\* What an upload event does to the step index and the result.
UploadEventEffect ==
    \A response \in Responses :
        /\ HandleChange("done", response)
           => /\ current' = 2
              /\ result' # NULL
              /\ result'.body = (IF response.isObject THEN response.body ELSE "created")
        /\ HandleChange("error", response) => UNCHANGED <<current, result>>

\* C28: current is always 0, 1 or 2 under any interleaving of next, back and
\* upload events; 'done' sets current to 2 and stores the result, 'error'
\* changes neither current nor result.
C28_StepInRange == []CurrentInRange /\ [][UploadEventEffect]_vars

\* A finished upload was stored and the wizard is on the result step, after
\* an earlier upload had failed.
C28_Witness ==
    /\ current = 2
    /\ result # NULL
    /\ result.body = "r2"
    /\ uploadErrors >= 1

\* C29: after any change of indicator or period the colour interpolation
\* range of the region fill layer is [minPositiveValue, maxValue] of the
\* currently selected data.
C29_RangeFollowsSelection == layerRange # NULL => layerRange = RangeOf(data)

\* What the code keeps instead: the range is the one read when the map
\* loaded, and no later step changes it.
C29_RangeFixedAtLoad ==
    [][/\ MapLoad => layerRange' = RangeOf(data)
       /\ layerRange # NULL => layerRange' = layerRange]_vars

\* What a row shows in a column.
ShownValue(row, by) ==
    CASE by = "time_distribution" -> row.time_distribution
      [] by = "flights_count_year" -> row.flights_count
      [] by = "flight_density_year" -> row.flight_density
      [] by = "name" -> row.region_name
      [] OTHER -> row[by]

\* u is below v in the order of a column's values; for the time distribution
\* no part of u exceeds the part of v and they differ.
Below(u, v, by) ==
    CASE by = "name" -> NameRank(u) < NameRank(v)
      [] by = "time_distribution" ->
            /\ u # v
            /\ u.morning_flights <= v.morning_flights
            /\ u.day_flights <= v.day_flights
            /\ u.evening_flights <= v.evening_flights
      [] OTHER -> u < v

IsPermutation(a, b) ==
    /\ Len(a) = Len(b)
    /\ \A x \in Range(a) \cup Range(b) :
          Cardinality({i \in 1..Len(a) : a[i] = x}) = Cardinality({i \in 1..Len(b) : b[i] = x})

\* The displayed rows are the store's rows ordered by value(row, sort.by).
OrderedBy(value(_, _)) ==
    tableRows # NULL =>
        /\ IsPermutation(sortedData, tableRows)
        /\ \A i, j \in 1..Len(sortedData) :
              i < j => IF sort.direction = "desc"
                       THEN ~Below(value(sortedData[i], sort.by), value(sortedData[j], sort.by),
                                   sort.by)
                       ELSE ~Below(value(sortedData[j], sort.by), value(sortedData[i], sort.by),
                                   sort.by)

\* A click on the current key's button flips the direction, on another
\* column's button selects it with direction desc; the store is not touched.
SortClickEffect ==
    /\ \A by \in SortKeys :
          SortClick(by)
          => sort' = IF sort.by = by
                     THEN [by |-> by,
                           direction |-> IF sort.direction = "desc" THEN "asc" ELSE "desc"]
                     ELSE [by |-> by, direction |-> "desc"]
    /\ tableRows # NULL => tableRows' = tableRows

ShownOrdered == OrderedBy(ShownValue)

\* C30: the initial order is activity_index descending; a click flips the
\* direction or selects another column with direction desc; the displayed
\* rows are always a permutation of the store's rows ordered by the value
\* shown in the selected column; the store's rows are not modified.
C30_SortedByShownColumn ==
    /\ sort = [by |-> "activity_index", direction |-> "desc"]
    /\ []ShownOrdered
    /\ [][SortClickEffect]_vars

\* The value the time distribution column is ordered by: the flights count.
KeyValue(row, by) ==
    IF by = "time_distribution" THEN row.flights_count ELSE ShownValue(row, by)

KeyBelow(u, v, by) == IF by = "name" THEN NameRank(u) < NameRank(v) ELSE u < v

KeyOrdered ==
    tableRows # NULL =>
        /\ IsPermutation(sortedData, tableRows)
        /\ \A i, j \in 1..Len(sortedData) :
              i < j => IF sort.direction = "desc"
                       THEN ~KeyBelow(KeyValue(sortedData[i], sort.by),
                                      KeyValue(sortedData[j], sort.by), sort.by)
                       ELSE ~KeyBelow(KeyValue(sortedData[j], sort.by),
                                      KeyValue(sortedData[i], sort.by), sort.by)

\* C30 with the time distribution column ordered by the flights count.
C30_SortedBySortKey ==
    /\ sort = [by |-> "activity_index", direction |-> "desc"]
    /\ []KeyOrdered
    /\ [][SortClickEffect]_vars

====
